---- MODULE Spec2Model ----
(***************************************************************************)
(* Model of provider/awsimages/aws.go: construction of the AWS image       *)
(* provider (New) and the multi-region fan-out/fan-in of DescribeImages    *)
(* (AwsImages.MultiImages): one goroutine per regional client, a mutex     *)
(* around the shared result map and error accumulator, a WaitGroup as the  *)
(* completion barrier.                                                     *)
(***************************************************************************)
EXTENDS Integers, Sequences, FiniteSets, TLC

(* ---------------------------- bounds ----------------------------------- *)

\* longest region specification, in comma separated tokens
MaxSpecLen == 1
\* longest image list a regional DescribeImages call returns
MaxImages == 2
\* creation timestamps range over 1..MaxTime
MaxTime == 2
\* number of MultiImages calls issued on one provider
MaxCalls == 2

(* ------------------------- values -------------------------------------- *)

\* the static catalog behind the all-regions sentinel
allRegions == {"us-east-1", "us-west-2"}

\* the all-regions sentinel of a region specification
AllSentinel == "all"

\* a region specification string, as its comma separated tokens; "" is <<>>
RegionSpecs == UNION {[1..n -> allRegions \cup {AllSentinel}] : n \in 0..MaxSpecLen}

\* AwsConfig: the four configuration strings
AwsConfig ==
    [Region : RegionSpecs, RegionExclude : RegionSpecs,
     AccessKey : {"", "AKIAEXAMPLE"}, SecretKey : {"", "secret"}]

\* no configuration: New is not executing
NoConf == [nil |-> TRUE]

\* the nil *AwsImages
NilProvider == [nil |-> TRUE]

\* the request ownerImages builds: Owners: stringSlice("self")
OwnersSelf == "self"

\* no request: MultiImages was never called
NoInput == ""

\* errors a regional DescribeImages call can return; "" is the nil error
ProviderErrors == {"AuthFailure", "RequestLimitExceeded"}

\* the image lists a region can return: ec2.Image records with an identifier
\* and a creation date, image i of the list having identifier i
ImageLists ==
    UNION {{[i \in 1..n |-> [ImageId |-> i, CreationDate |-> t[i]]] : t \in [1..n -> 1..MaxTime]}
           : n \in 0..MaxImages}

\* the (resp, err) pairs a regional DescribeImages call can return
Outcomes ==
    {[Images |-> l, err |-> ""] : l \in ImageLists}
      \cup {[Images |-> <<>>, err |-> e] : e \in ProviderErrors}

\* the zero value of a unit's resp, err before its provider call returned
NoOutcome == [Images |-> <<>>, err |-> ""]

\* nothing kept: no MultiImages call has returned yet
NoPrev == [keys |-> {}, succeeded |-> {}, errors |-> 0]

\* the empty map made by make(map[string][]*ec2.Image)
EmptyMap == [r \in {} |-> <<>>]

Range(s) == {s[i] : i \in DOMAIN s}

(* --------------------------- state ------------------------------------- *)

VARIABLES
    conf,           \* the *AwsConfig argument of the executing New, else NoConf
    newpc,          \* "init", "called" (New executing), "returned"
    a,              \* the *AwsImages returned by New, NilProvider if none
    newErr,         \* the error returned by New, "" for nil
    nMultiRegion,   \* number of invocations of newMultiRegion
    ncalls,         \* number of MultiImages calls started
    input,          \* the input argument of the current MultiImages call
    prev,           \* what the caller keeps of the previous call's result
    mpc,            \* the caller's position in MultiImages
    launched,       \* regions the range loop has visited
    wg,             \* the WaitGroup counter
    mu,             \* TRUE while the Mutex is locked
    multiErrors,    \* the error accumulator: sequence of errors, <<>> is nil
    images,         \* the result map of the current call
    upc,            \* each unit's position
    resp,           \* each unit's resp.Images and err
    provided,       \* history: what the provider returned to each unit
    invoked,        \* history: DescribeImages invocations per region
    errRegion,      \* history: the region behind every appended error
    helpCmd,        \* the command argument of the last Help call
    helpOut         \* the string the last Help call returned, "" before any

vars == <<helpCmd, helpOut, conf, newpc, a, newErr, nMultiRegion, ncalls, input, prev, mpc, launched,
          wg, mu, multiErrors, images, upc, resp, provided, invoked, errRegion>>

helpVars == <<helpCmd, helpOut>>
newVars == <<conf, newpc, a, newErr, nMultiRegion>>
callVars == <<ncalls, input, prev, mpc, launched>>
unitVars == <<upc, resp, provided, invoked>>
sharedVars == <<wg, mu, multiErrors, images, errRegion>>

(* ------------------------ provider construction ------------------------ *)

checkCfg == "Please check your configuration"

\* New without its access key validation
ConfigErrorNoAccessKey(c) ==
    IF c.Region = <<>> THEN "AWS Region is not set. " \o checkCfg
    ELSE IF c.SecretKey = "" THEN "AWS Secret Key is not set. " \o checkCfg
    ELSE ""

\* the three validations of New, in order; "" when the configuration passes
ConfigError(c) ==
    IF c.Region = <<>> THEN "AWS Region is not set. " \o checkCfg
    ELSE IF c.AccessKey = "" THEN "AWS Access Key is not set. " \o checkCfg
    ELSE IF c.SecretKey = "" THEN "AWS Secret Key is not set. " \o checkCfg
    ELSE ""

\* the regions a specification names
SpecRegions(spec) ==
    IF AllSentinel \in Range(spec) THEN allRegions ELSE Range(spec) \cap allRegions

\* parseRegions: included regions minus excluded regions
parseRegions(region, exclude) == SpecRegions(region) \ SpecRegions(exclude)

\* newMultiRegion: one client per region, each bound to its region
newMultiRegion(regions) == [regions |-> [r \in regions |-> [Region |-> r]]]

\* the regions of the provider's registry
Regions == IF a = NilProvider THEN {} ELSE DOMAIN a.services.regions

\* a caller invokes New(conf)
NewCall(c) ==
    /\ newpc = "init"
    /\ newpc' = "called"
    /\ conf' = c
    /\ UNCHANGED <<helpVars, a, newErr, nMultiRegion, callVars, unitVars, sharedVars>>

\* New runs to its return
NewReturn ==
    /\ newpc = "called"
    /\ newpc' = "returned"
    /\ conf' = NoConf
    /\ IF ConfigError(conf) # ""
       THEN /\ a' = NilProvider
            /\ newErr' = ConfigError(conf)
            /\ UNCHANGED nMultiRegion
       ELSE /\ a' = [services |-> newMultiRegion(parseRegions(conf.Region, conf.RegionExclude)),
                     images |-> EmptyMap]
            /\ newErr' = ""
            /\ nMultiRegion' = nMultiRegion + 1
    /\ UNCHANGED <<helpVars, callVars, unitVars, sharedVars>>

(* ----------------------------- MultiImages ----------------------------- *)

\* an accumulator that keeps only the last error
AppendReplace(me, err) == <<err>>

\* an accumulator that drops an error equal to one it already holds
AppendDedupe(me, err) == IF err \in Range(me) THEN me ELSE Append(me, err)

\* multierror.Append(multiErrors, err)
Append_multierror(me, err) == Append(me, err)

\* Less of byTime: by creation date
Less(x, y) == x.CreationDate < y.CreationDate

\* the orders sort.Sort(byTime(l)) can leave l in: the permutations of l in
\* which no element is Less than its predecessor
SortByTime(l) ==
    {s \in [1..Len(l) -> Range(l)] :
        /\ Range(s) = Range(l)
        /\ \A i \in 1..(Len(s) - 1) : ~Less(s[i + 1], s[i])}

\* the list stored as the provider returned it
Unsorted(l) == {l}

\* lines 86-88: the list is sorted only when it has more than one element
Sorted(l) == IF Len(l) > 1 THEN SortByTime(l) ELSE {l}

\* a store that starts from a fresh map
StoreImagesFresh(m, region, l) == [r \in {region} |-> l]

\* images[region] = list
StoreImages(m, region, l) ==
    [r \in DOMAIN m \cup {region} |-> IF r = region THEN l ELSE m[r]]

\* a loop that stops launching once an error was recorded
RemainingUntilError == IF multiErrors # <<>> THEN {} ELSE Regions \ launched

\* a loop that ranges over the catalog instead of the registry
RemainingOfCatalog == allRegions \ launched

\* the regions the range loop has not visited yet
Remaining == Regions \ launched

\* a lock that never blocks
MuAlwaysFree == TRUE

\* mu.Lock() can proceed
MuFree == ~mu

\* a barrier that never blocks
WgNoWait == TRUE

\* wg.Wait() can return
WgZero == wg = 0

\* what the caller keeps of the (images, multiErrors) a call returned: the
\* keys of the map, the regions whose call had succeeded, the error count
Kept ==
    [keys |-> DOMAIN images,
     succeeded |-> {r \in Regions : invoked[r] > 0 /\ provided[r].err = ""},
     errors |-> Len(multiErrors)]

\* a call that goes on with the map of the call before
ReusedImages == images

\* images := make(map[string][]*ec2.Image)
FreshImages == EmptyMap

\* var multiErrors error: nil
FreshErrors == <<>>

\* a.MultiImages(input) is entered: the locals of lines 67-74
MultiImagesCall(in) ==
    /\ newpc = "returned"
    /\ a # NilProvider
    /\ mpc \in {"idle", "returned"}
    /\ ncalls < MaxCalls
    /\ ncalls' = ncalls + 1
    /\ input' = in
    /\ prev' = IF mpc = "returned" THEN Kept ELSE NoPrev
    /\ mpc' = "loop"
    /\ launched' = {}
    /\ wg' = 0
    /\ mu' = FALSE
    /\ multiErrors' = FreshErrors
    /\ images' = FreshImages
    /\ errRegion' = <<>>
    /\ upc' = [r \in allRegions |-> "idle"]
    /\ resp' = [r \in allRegions |-> NoOutcome]
    /\ provided' = [r \in allRegions |-> NoOutcome]
    /\ invoked' = [r \in allRegions |-> 0]
    /\ UNCHANGED <<helpVars, newVars>>

\* one iteration of the range loop: wg.Add(1); go func(region, svc)
Launch(r) ==
    /\ mpc = "loop"
    /\ r \in Remaining
    /\ launched' = launched \cup {r}
    /\ wg' = wg + 1
    /\ upc' = [upc EXCEPT ![r] = "call"]
    /\ UNCHANGED <<helpVars, newVars, ncalls, input, prev, mpc, mu, multiErrors, images,
                   errRegion, resp, provided, invoked>>

\* the range loop ends
LoopExit ==
    /\ mpc = "loop"
    /\ Remaining = {}
    /\ mpc' = "wait"
    /\ UNCHANGED <<helpVars, newVars, ncalls, input, prev, launched, unitVars, sharedVars>>

\* wg.Wait() returns and MultiImages returns images, multiErrors
WaitReturn ==
    /\ mpc = "wait"
    /\ WgZero
    /\ mpc' = "returned"
    /\ UNCHANGED <<helpVars, newVars, ncalls, input, prev, launched, unitVars, sharedVars>>

\* a unit that makes its provider call only while the mutex is free
CallWhileUnlocked(r) == upc[r] = "call" /\ ~mu

\* the unit of r is at line 79: its provider call waits for nothing
CallReady(r) == upc[r] = "call"

\* a unit that calls the provider again after an error
RetryOnError(o) == IF o.err # "" THEN "call" ELSE "lock"

\* where a unit goes with the outcome of its provider call: to mu.Lock
AfterCall(o) == "lock"

\* resp, err := svc.DescribeImages(input)
DescribeImages(r) ==
    /\ CallReady(r)
    /\ \E o \in Outcomes :
        /\ resp' = [resp EXCEPT ![r] = o]
        /\ provided' = [provided EXCEPT ![r] = o]
        /\ upc' = [upc EXCEPT ![r] = AfterCall(o)]
    /\ invoked' = [invoked EXCEPT ![r] = @ + 1]
    /\ UNCHANGED <<helpVars, newVars, callVars, sharedVars>>

\* mu.Lock()
Lock(r) ==
    /\ upc[r] = "lock"
    /\ MuFree
    /\ mu' = TRUE
    /\ upc' = [upc EXCEPT ![r] = "cs"]
    /\ UNCHANGED <<helpVars, newVars, callVars, wg, multiErrors, images, errRegion,
                   resp, provided, invoked>>

\* a unit that returns from its error branch without mu.Unlock and wg.Done
ReturnOnError(err) == IF err # "" THEN "done" ELSE "unlock"

\* where a unit goes after either branch of lines 82-91: to mu.Unlock
AfterWrite(err) == "unlock"

\* lines 82-91: append the error, or sort the list in place and store it
Write(r) ==
    /\ upc[r] = "cs"
    /\ IF resp[r].err # ""
       THEN /\ multiErrors' = Append_multierror(multiErrors, resp[r].err)
            /\ errRegion' = Append(errRegion, r)
            /\ UNCHANGED <<images, resp>>
       ELSE /\ \E s \in Sorted(resp[r].Images) :
                /\ resp' = [resp EXCEPT ![r].Images = s]
                /\ images' = StoreImages(images, r, s)
            /\ UNCHANGED <<multiErrors, errRegion>>
    /\ upc' = [upc EXCEPT ![r] = AfterWrite(resp[r].err)]
    /\ UNCHANGED <<helpVars, newVars, callVars, wg, mu, provided, invoked>>

\* mu.Unlock()
Unlock(r) ==
    /\ upc[r] = "unlock"
    /\ mu' = FALSE
    /\ upc' = [upc EXCEPT ![r] = "wgdone"]
    /\ UNCHANGED <<helpVars, newVars, callVars, wg, multiErrors, images, errRegion,
                   resp, provided, invoked>>

\* wg.Done()
Done(r) ==
    /\ upc[r] = "wgdone"
    /\ wg' = wg - 1
    /\ upc' = [upc EXCEPT ![r] = "done"]
    /\ UNCHANGED <<helpVars, newVars, callVars, mu, multiErrors, images, errRegion,
                   resp, provided, invoked>>

\* ownerImages: MultiImages with the Owners: self request
ownerImages == MultiImagesCall(OwnersSelf)

(* -------------------------------- Help -------------------------------- *)

\* the command names Help is called with
Commands == {"modify", "delete", "list", "copy", "help", "version", "Modify", "lists", ""}

\* the global flags text of lines 115-120
global ==
    "\n  -access-key      \"...\"       AWS Access Key (env: IMAGES_AWS_ACCESS_KEY)"
    \o "\n  -secret-key      \"...\"       AWS Secret Key (env: IMAGES_AWS_SECRET_KEY)"
    \o "\n  -region          \"...\"       AWS Region (env: IMAGES_AWS_REGION)"
    \o "\n  -region-exclude  \"...\"       AWS Region to be excluded (env: IMAGES_AWS_REGION_EXCLUDE)\n"

\* the help text of list, lines 127-132
listHelpMsg ==
    "Usage: images list --provider aws [options]\n\n List AMI properties.\n\nOptions:\n\t"

\* newModifyFlags().helpMsg, newDeleteFlags().helpMsg, newCopyFlags().helpMsg
modifyHelpMsg == "Usage: images modify --provider aws [options]\n"
deleteHelpMsg == "Usage: images delete --provider aws [options]\n"
copyHelpMsg == "Usage: images copy --provider aws [options]\n"

\* a Help whose default case falls through to the global flags
HelpDefaultFallsThrough(command) ==
    (IF command = "modify" THEN modifyHelpMsg
     ELSE IF command = "delete" THEN deleteHelpMsg
     ELSE IF command = "list" THEN listHelpMsg
     ELSE IF command = "copy" THEN copyHelpMsg
     ELSE "no help found for command " \o command) \o global

\* Help: the switch of lines 121-137, then help += global
Help(command) ==
    IF command = "modify" THEN modifyHelpMsg \o global
    ELSE IF command = "delete" THEN deleteHelpMsg \o global
    ELSE IF command = "list" THEN listHelpMsg \o global
    ELSE IF command = "copy" THEN copyHelpMsg \o global
    ELSE "no help found for command " \o command

\* a caller invokes a.Help(command)
HelpCall(command) ==
    /\ newpc = "returned"
    /\ a # NilProvider
    /\ helpCmd' = command
    /\ helpOut' = Help(command)
    /\ UNCHANGED <<newVars, callVars, unitVars, sharedVars>>

(* --------------------------- specification ----------------------------- *)

Init ==
    /\ conf = NoConf
    /\ newpc = "init"
    /\ a = NilProvider
    /\ newErr = ""
    /\ nMultiRegion = 0
    /\ ncalls = 0
    /\ input = NoInput
    /\ prev = NoPrev
    /\ mpc = "idle"
    /\ launched = {}
    /\ wg = 0
    /\ mu = FALSE
    /\ multiErrors = <<>>
    /\ images = EmptyMap
    /\ errRegion = <<>>
    /\ upc = [r \in allRegions |-> "idle"]
    /\ resp = [r \in allRegions |-> NoOutcome]
    /\ provided = [r \in allRegions |-> NoOutcome]
    /\ invoked = [r \in allRegions |-> 0]
    /\ helpCmd = ""
    /\ helpOut = ""

Next ==
    \/ newpc = "init" /\ \E c \in AwsConfig : NewCall(c)
    \/ NewReturn
    \/ ownerImages
    \/ \E r \in allRegions : Launch(r)
    \/ LoopExit
    \/ WaitReturn
    \/ \E r \in allRegions : DescribeImages(r)
    \/ \E r \in allRegions : Lock(r)
    \/ \E r \in allRegions : Write(r)
    \/ \E r \in allRegions : Unlock(r)
    \/ \E r \in allRegions : Done(r)

Spec == Init /\ [][Next]_vars

\* a step of the goroutine that called MultiImages
CallerStep == (\E r \in allRegions : Launch(r)) \/ LoopExit \/ WaitReturn

\* a step of the goroutine launched for r
UnitStep(r) == DescribeImages(r) \/ Lock(r) \/ Write(r) \/ Unlock(r) \/ Done(r)

\* the scheduling of a MultiImages call: the caller's goroutine and every
\* launched goroutine take their next step when it stays possible; for a
\* unit this says that its provider call returns and that it gets the mutex
\* once the mutex stays free
Fairness ==
    /\ WF_vars(CallerStep)
    /\ \A r \in allRegions : WF_vars(UnitStep(r))

\* the steps of a provider on which MultiImages is called once
NextOneCall == Next /\ ncalls' <= 1

\* one MultiImages call, fairly scheduled
FairSpec == Init /\ [][NextOneCall]_vars /\ Fairness

\* construction of the provider followed by Help calls
NextHelp ==
    \/ newpc = "init" /\ \E c \in AwsConfig : NewCall(c)
    \/ NewReturn
    \/ \E command \in Commands : HelpCall(command)

SpecHelp == Init /\ [][NextHelp]_vars

TypeOK ==
    /\ newpc \in {"init", "called", "returned"}
    /\ mpc \in {"idle", "loop", "wait", "returned"}
    /\ wg \in 0..Cardinality(allRegions)
    /\ mu \in BOOLEAN
    /\ launched \subseteq Regions

(* ------------------------------ claims --------------------------------- *)

\* MultiImages has returned to its caller
Returned == mpc = "returned"

\* the regional call of r returned an error / returned a response
Failed(r) == invoked[r] > 0 /\ provided[r].err # ""
Succeeded(r) == invoked[r] > 0 /\ provided[r].err = ""

FailedRegions == {r \in Regions : Failed(r)}
SucceededRegions == {r \in Regions : Succeeded(r)}

\* number of positions of s holding x
Count(s, x) == Cardinality({i \in DOMAIN s : s[i] = x})

\* s and t hold the same elements the same number of times
IsPermutation(s, t) ==
    /\ Len(s) = Len(t)
    /\ \A x \in Range(s) \cup Range(t) : Count(s, x) = Count(t, x)

\* l is ordered by creation date, oldest first
Ascending(l) == \A i \in 1..(Len(l) - 1) : l[i].CreationDate <= l[i + 1].CreationDate

\* C1: when MultiImages has returned on a registry of at least one region and
\* no regional call failed, the result map has one key per registered region
\* and the aggregated error is nil.
C1_AllSucceed ==
    (Returned /\ Regions # {} /\ FailedRegions = {})
        => /\ Cardinality(DOMAIN images) = Cardinality(Regions)
           /\ DOMAIN images = Regions
           /\ multiErrors = <<>>

C1_Witness ==
    /\ Returned
    /\ Cardinality(Regions) = 2
    /\ SucceededRegions = Regions
    /\ DOMAIN images = Regions
    /\ multiErrors = <<>>

\* C2: when MultiImages has returned and exactly k >= 1 regional calls failed,
\* the result map has |R| - k keys and the aggregated error holds k errors.
C2_PartialFailure ==
    (Returned /\ Cardinality(FailedRegions) >= 1)
        => /\ Cardinality(DOMAIN images) = Cardinality(Regions) - Cardinality(FailedRegions)
           /\ Len(multiErrors) = Cardinality(FailedRegions)

\* one of two regions failed: one key and one error are returned together
C2_Witness ==
    /\ Returned
    /\ Cardinality(Regions) = 2
    /\ Cardinality(FailedRegions) = 1
    /\ Len(multiErrors) = 1
    /\ Cardinality(DOMAIN images) = 1

\* C3: MultiImages returns only after every launched unit has completed: at
\* return every registered region's unit is past its provider call, its
\* critical section and its wg.Done, also when some region failed.
C3_Barrier ==
    Returned => /\ launched = Regions
                /\ \A r \in Regions : upc[r] = "done"
                /\ wg = 0
                /\ ~mu

C3_Witness ==
    /\ Returned
    /\ FailedRegions # {}
    /\ SucceededRegions # {}
    /\ \A r \in Regions : upc[r] = "done"

\* C4: every registered region is attempted: once the range loop is over a
\* unit was launched for every region, and at return the provider operation
\* was invoked for every region, whichever regions failed.
C4_AllAttempted ==
    /\ mpc \in {"wait", "returned"} => launched = Regions
    /\ Returned => \A r \in Regions : invoked[r] >= 1

\* one of two regions failed and the provider was invoked for both
C4_Witness ==
    /\ Returned
    /\ Cardinality(Regions) = 2
    /\ Cardinality(FailedRegions) = 1
    /\ \A r \in Regions : invoked[r] = 1

\* the units between mu.Lock and mu.Unlock
InCriticalSection == {r \in Regions : upc[r] \in {"cs", "unlock"}}

\* C5: the result map and the error accumulator change only in a step of a
\* unit that holds the locked mutex (or when a new call makes them afresh),
\* and at most one unit is between mu.Lock and mu.Unlock.
C5_MutualExclusion ==
    [][/\ (images' # images \/ multiErrors' # multiErrors)
            => \/ mpc \in {"idle", "returned"} /\ mpc' = "loop"
               \/ /\ mu
                  /\ \E r \in InCriticalSection :
                        upc[r] = "cs" /\ upc'[r] = "unlock"
       /\ Cardinality(InCriticalSection') <= 1
       /\ (InCriticalSection' # {}) => mu']_vars

\* one unit is in its critical section while the other waits for the lock
C5_Witness ==
    /\ \E r \in Regions : upc[r] = "cs"
    /\ \E r \in Regions : upc[r] = "lock"
    /\ mu

\* C6: at return the keys of the result map are exactly the regions whose
\* call succeeded, each key holds the images its own region returned, and
\* every failed region's error is in the aggregated error, once per failure.
C6_NoLoss ==
    Returned =>
        /\ DOMAIN images = SucceededRegions
        /\ \A r \in DOMAIN images : IsPermutation(images[r], provided[r].Images)
        /\ Len(multiErrors) = Cardinality(FailedRegions)
        /\ \A e \in ProviderErrors :
              Count(multiErrors, e) = Cardinality({r \in FailedRegions : provided[r].err = e})

\* both regions fail with the same error and both failures are reported
C6_Witness ==
    /\ Returned
    /\ Cardinality(FailedRegions) = 2
    /\ \A r \in FailedRegions : provided[r].err = "AuthFailure"
    /\ multiErrors = <<"AuthFailure", "AuthFailure">>

\* the configuration errors of New
ConfigErrors ==
    {"AWS Region is not set. Please check your configuration",
     "AWS Access Key is not set. Please check your configuration",
     "AWS Secret Key is not set. Please check your configuration"}

\* C7: New returns a configuration error and a nil provider, without invoking
\* newMultiRegion, when the access key, the secret key or the region
\* specification is empty; otherwise it returns a provider and a nil error.
C7_ConfigValidation ==
    [][(newpc = "called" /\ newpc' = "returned") =>
          IF conf.AccessKey = "" \/ conf.SecretKey = "" \/ conf.Region = <<>>
          THEN /\ newErr' \in ConfigErrors
               /\ a' = NilProvider
               /\ nMultiRegion' = 0
          ELSE /\ newErr' = ""
               /\ a' # NilProvider
               /\ nMultiRegion' = 1]_vars

C7_Witness ==
    /\ newpc = "returned"
    /\ newErr = "AWS Access Key is not set. Please check your configuration"
    /\ a = NilProvider
    /\ nMultiRegion = 0

\* C8: a provider New returned holds at least one regional client.
C8_RegionSetNonEmpty ==
    (newpc = "returned" /\ a # NilProvider) => Regions # {}

\* C9: every list in the result map is a permutation of the list the provider
\* returned for that region, ordered by creation date ascending; a provider
\* list of length 0 or 1 is stored unchanged.
C9_SortedByTime ==
    \A r \in DOMAIN images :
        /\ IsPermutation(images[r], provided[r].Images)
        /\ Ascending(images[r])
        /\ Len(provided[r].Images) <= 1 => images[r] = provided[r].Images

\* the provider returned the newer image first and the map holds it last
C9_Witness ==
    /\ Returned
    /\ \E r \in DOMAIN images :
          /\ Len(provided[r].Images) = 2
          /\ provided[r].Images[1].CreationDate > provided[r].Images[2].CreationDate
          /\ images[r] = <<provided[r].Images[2], provided[r].Images[1]>>

\* the assignments of regions to the constituents of the aggregated error
\* that agree with the returned map and error: an error value names no
\* region, so any failed region can stand behind any constituent
Attributions ==
    {o \in [1..Len(multiErrors) -> Regions \ DOMAIN images] :
        \A i, j \in 1..Len(multiErrors) : o[i] = o[j] => i = j}

\* C10: at return the region behind every constituent of the aggregated error
\* is determined by the returned map and error.
C10_Attribution ==
    Returned => Attributions = {errRegion}

EntersCall == mpc \in {"idle", "returned"} /\ mpc' = "loop"

\* C12: every call starts with an empty result map and a nil accumulator of
\* its own; no step after construction changes the provider (its registry of
\* regional clients and its images field); and what a call returns comes
\* from that call's regional calls only, whatever the call before returned.
C12_FreshPerCall ==
    [][/\ EntersCall => (images' = EmptyMap /\ multiErrors' = <<>>)
       /\ a # NilProvider => a' = a
       /\ mpc' = "returned" =>
            /\ DOMAIN images' = SucceededRegions'
            /\ \A r \in DOMAIN images' : IsPermutation(images'[r], provided'[r].Images)
            /\ Len(multiErrors') = Cardinality(FailedRegions')
            /\ \A i \in DOMAIN multiErrors' :
                  \E r \in FailedRegions' : provided'[r].err = multiErrors'[i]]_vars

\* the first call returned two keys and no error, the second call returns no
\* key and two errors
C12_Witness ==
    /\ Returned
    /\ ncalls = 2
    /\ Cardinality(prev.keys) = 2
    /\ prev.errors = 0
    /\ images = EmptyMap
    /\ Len(multiErrors) = 2
    /\ a.images = EmptyMap

\* C13: Help returns a string for every command: for a command other than
\* modify, delete, list and copy, "no help found for command " followed by
\* the command and nothing more; for each of the four, that command's help
\* text followed by the global flags text.
C13_Help ==
    helpOut # "" =>
        CASE helpCmd = "modify" -> helpOut = modifyHelpMsg \o global
          [] helpCmd = "delete" -> helpOut = deleteHelpMsg \o global
          [] helpCmd = "list" -> helpOut = listHelpMsg \o global
          [] helpCmd = "copy" -> helpOut = copyHelpMsg \o global
          [] OTHER -> /\ helpOut = "no help found for command " \o helpCmd
                      /\ helpOut # ("no help found for command " \o helpCmd) \o global

\* Help was called with an unknown command
C13_Witness ==
    /\ helpCmd = "help"
    /\ helpOut = "no help found for command help"

\* the units whose provider call is in progress
InFlight == {r \in Regions : upc[r] = "call"}

\* C14: the mutex is locked only while some unit is between mu.Lock and
\* mu.Unlock, no unit is there while its provider call is in progress, and a
\* provider call in progress can return whatever the state of the mutex, so
\* the calls of all regions can be in progress together.
C14_CallsOutsideLock ==
    /\ mu <=> InCriticalSection # {}
    /\ InFlight \cap InCriticalSection = {}
    /\ \A r \in InFlight : ENABLED DescribeImages(r)

\* the provider calls of both regions of the registry are in progress together
C14_Witness ==
    /\ Cardinality(Regions) = 2
    /\ InFlight = Regions

\* C15: one unit is launched per region of the registry and none for any
\* other region, the WaitGroup counts the launched units that are not done,
\* and the provider operation is invoked at most once per region during the
\* call and exactly once by its return, also for a region whose call failed.
C15_OncePerRegion ==
    /\ \A r \in allRegions :
          /\ invoked[r] <= 1
          /\ r \in launched <=> upc[r] # "idle"
          /\ r \notin Regions => (invoked[r] = 0 /\ upc[r] = "idle")
          /\ invoked[r] = 1 <=> upc[r] \notin {"idle", "call"}
    /\ wg = Cardinality({r \in launched : upc[r] # "done"})
    /\ Returned => \A r \in Regions : invoked[r] = 1

\* both regional calls failed and each was made once
C15_Witness ==
    /\ Returned
    /\ Cardinality(FailedRegions) = 2
    /\ \A r \in Regions : invoked[r] = 1

\* C16: under fair scheduling, with every provider call returning, a
\* MultiImages call that was entered returns.
C16_Returns == (mpc \in {"loop", "wait"}) ~> (mpc = "returned")

\* a call returned after one unit took the error branch and one the success
\* branch: the mutex is free and the WaitGroup is at zero
C16_Witness ==
    /\ Returned
    /\ ncalls = 1
    /\ Cardinality(FailedRegions) = 1
    /\ Cardinality(SucceededRegions) = 1
    /\ ~mu
    /\ wg = 0

\* the units that have done the write of lines 82-91 / that are past mu.Unlock
Written == {r \in Regions : upc[r] \in {"unlock", "wgdone", "done"}}
PastUnlock == {r \in Regions : upc[r] \in {"wgdone", "done"}}

\* C17 as stated: in every state the keys of the map and the errors of the
\* accumulator are as many as the units that completed their critical section.
C17_CountsPastUnlock ==
    Cardinality(DOMAIN images) + Len(multiErrors) = Cardinality(PastUnlock)

\* every unit that has written is behind one key or one error, never both,
\* and no other unit is behind any
OneContribution ==
    \A r \in allRegions :
        IF r \in Written
        THEN \/ r \in DOMAIN images /\ Count(errRegion, r) = 0
             \/ r \notin DOMAIN images /\ Count(errRegion, r) = 1
        ELSE r \notin DOMAIN images /\ Count(errRegion, r) = 0

\* C17 amended: in every state the keys of the map and the errors of the
\* accumulator are as many as the units that have done the write of their
\* critical section (the unit that has written and not yet unlocked counts);
\* each such unit is behind exactly one key or one error; and within a call
\* a step keeps every key with its value, keeps the errors recorded so far as
\* a prefix and adds at most one key or error.
C17_Accumulators ==
    [][/\ Cardinality(DOMAIN images') + Len(multiErrors') = Cardinality(Written')
       /\ Len(errRegion') = Len(multiErrors')
       /\ OneContribution'
       /\ ~EntersCall =>
            /\ DOMAIN images \subseteq DOMAIN images'
            /\ \A r \in DOMAIN images : images'[r] = images[r]
            /\ Len(multiErrors') >= Len(multiErrors)
            /\ SubSeq(multiErrors', 1, Len(multiErrors)) = multiErrors
            /\ Cardinality(DOMAIN images') + Len(multiErrors')
                  <= Cardinality(DOMAIN images) + Len(multiErrors) + 1]_vars

\* one unit is done and contributed an error, the other has stored its key
\* and still holds the mutex
C17_Witness ==
    /\ \E r \in Regions : upc[r] = "unlock" /\ r \in DOMAIN images
    /\ \E r \in Regions : upc[r] = "done" /\ errRegion = <<r>>
    /\ Len(multiErrors) = 1

\* C18: on a provider whose registry is empty a MultiImages call launches no
\* unit and invokes no provider operation, the loop and the barrier do not
\* block, and the map stays empty and the error nil up to the return.
C18_EmptyRegistry ==
    (a # NilProvider /\ Regions = {} /\ mpc # "idle") =>
        /\ launched = {}
        /\ wg = 0
        /\ \A r \in allRegions : upc[r] = "idle" /\ invoked[r] = 0
        /\ images = EmptyMap
        /\ multiErrors = <<>>
        /\ mpc = "loop" => ENABLED LoopExit
        /\ mpc = "wait" => ENABLED WaitReturn

\* a call on a provider without regional clients has returned
C18_Witness ==
    /\ a # NilProvider
    /\ Regions = {}
    /\ Returned
    /\ images = EmptyMap
    /\ multiErrors = <<>>
====
